---------------------------- MODULE Spec2Model ----------------------------
(***************************************************************************)
(* Model of docusaurus_frontmatter.py: the batch front-matter updater.     *)
(*                                                                         *)
(* Text is a sequence of tokens.  A token is one character ("\n", " ",     *)
(* "[", ",", ...) or an atom standing for a run of characters that the     *)
(* program never looks inside one by one: the delimiter "---", a word of   *)
(* body text, a label "description:" of the model's answer, or one line of *)
(* YAML such as "title: T".  The regular expression of process_file, the   *)
(* YAML loader and dumper, and the parser of the model's answer are        *)
(* operators over such sequences.                                          *)
(***************************************************************************)
EXTENDS Integers, Sequences, FiniteSets, TLC

\* ------------------------------------------------------------------ bounds

\* Largest number of fallback (exponential backoff) waits of one request loop.
MaxFallbacks == 8

\* Largest number of paths on the command line.
MaxArgs == 2

\* ------------------------------------------------------- program constants

\* backoff_delay = 1
InitialBackoff == 1

\* min(backoff_delay * 2, 60)
BackoffCap == 60

\* ------------------------------------------------------------------- text

NL == "\n"
SP == " "
DELIM == "---"

\* Python's str.isspace() on one character, and the regex class \s.
IsSpace(t) == t \in {NL, SP}

AllSpace(s, from, to) == \A p \in from..to : IsSpace(s[p])

\* s[from:] as a sequence (1-based, inclusive).
Drop(s, from) == SubSeq(s, from, Len(s))

RECURSIVE Join(_)
\* "".join(tokens): the string a token sequence spells.
Join(s) == IF s = <<>> THEN "" ELSE Head(s) \o Join(Tail(s))

RECURSIVE LStrip(_, _)
\* str.lstrip(chars)
LStrip(s, chars) ==
    IF s # <<>> /\ Head(s) \in chars THEN LStrip(Tail(s), chars) ELSE s

RECURSIVE RStrip(_, _)
\* str.rstrip(chars)
RStrip(s, chars) ==
    IF s # <<>> /\ s[Len(s)] \in chars
    THEN RStrip(SubSeq(s, 1, Len(s) - 1), chars)
    ELSE s

\* str.strip(): whitespace off both ends.
Strip(s) == RStrip(LStrip(s, {NL, SP}), {NL, SP})

\* str.strip('"\''): quote characters off both ends.
StripQuotes(s) == RStrip(LStrip(s, {"\"", "'"}), {"\"", "'"})

RECURSIVE SplitOn(_, _)
\* str.split(sep) for a one-character separator: always at least one piece.
SplitOn(s, sep) ==
    IF \E p \in 1..Len(s) : s[p] = sep
    THEN LET p == CHOOSE q \in 1..Len(s) :
                      s[q] = sep /\ \A r \in 1..(q - 1) : s[r] # sep
         IN  <<SubSeq(s, 1, p - 1)>> \o SplitOn(Drop(s, p + 1), sep)
    ELSE <<s>>

\* ------------------------------------------ the header/body regular expression

(***************************************************************************)
(* The pattern of process_file, matched with re.match and re.DOTALL: the   *)
(* text starts with `---`, then whitespace (greedy) and a newline, then    *)
(* group 1 (anything, lazy), then a newline, `---`, whitespace (greedy)    *)
(* and a newline, then group 2 (anything, the rest).                       *)
(* A match is a triple <<i, j, m>>: i is the position of the newline that  *)
(* ends the opening delimiter, j the newline before the closing `---`, m   *)
(* the newline that ends the closing delimiter.  group(1) is c[i+1 .. j-1] *)
(* and group(2) is c[m+1 ..].                                              *)
(***************************************************************************)
\* The positions where the opening delimiter can end.
Openings(c) ==
    IF Len(c) = 0 \/ c[1] # DELIM THEN {}
    ELSE {i \in 2..Len(c) : c[i] = NL /\ AllSpace(c, 2, i - 1)}

\* The positions where a closing delimiter that starts at j can end.
Ends(c, j) ==
    {m \in (j + 2)..Len(c) : c[m] = NL /\ AllSpace(c, j + 2, m - 1)}

\* The positions after i where a closing delimiter can start.
Closings(c, i) ==
    {j \in (i + 1)..(Len(c) - 1) :
        c[j] = NL /\ c[j + 1] = DELIM /\ Ends(c, j) # {}}

HasMatch(c) == \E i \in Openings(c) : Closings(c, i) # {}

Max(S) == CHOOSE x \in S : \A y \in S : y <= x
Min(S) == CHOOSE x \in S : \A y \in S : x <= y

\* The match the backtracking engine returns: the first whitespace run is
\* greedy (the largest i that leaves a match), group 1 is lazy (then the
\* smallest j), the second whitespace run is greedy (then the largest m).
TheMatch(c) ==
    LET i == Max({x \in Openings(c) : Closings(c, x) # {}})
        j == Min(Closings(c, i))
        m == Max(Ends(c, j))
    IN  <<i, j, m>>

\* match.group(1)
Group1(c) == SubSeq(c, TheMatch(c)[1] + 1, TheMatch(c)[2] - 1)

\* match.group(2)
Group2(c) == Drop(c, TheMatch(c)[3] + 1)

\* ------------------------------------------------------------------- YAML

(***************************************************************************)
(* A YAML value is a tagged tuple: <<"str", v>> a scalar, <<"null">> None, *)
(* <<"list", x1, ..., xn>> a sequence of scalars.  A mapping is a sequence *)
(* of <<key, value>> pairs in insertion order, as a Python dict is.  A     *)
(* loaded document is [kind, entries, open]: kind "none" (an empty         *)
(* document, None), "map", "scalar" or "list" (a document that is not a    *)
(* mapping) or "error" (yaml.YAMLError); open says that the last line      *)
(* read was a bare `key:` or an item below one.                            *)
(***************************************************************************)
YamlKeys == {"title", "sidebar", "description", "keywords"}

YamlScalars == {"T", "2", "old", "d1", "d2", "a", "b", "c", "k"}

\* How the emitter writes a string scalar: the empty string needs quotes.
Quote(v) == IF v = "" THEN "''" ELSE v

\* The spellings of a string scalar the loader reads as v.
Spellings(v) == {Quote(v), "'" \o v \o "'", "\"" \o v \o "\""}

\* The <<key, value>> pairs that one line of YAML, an atom, can spell.
PairsOf(atom) ==
    {pr \in YamlKeys \X ({"str"} \X (YamlScalars \cup {""})) :
        \E sp \in Spellings(pr[2][2]) : atom = pr[1] \o ": " \o sp}

NullsOf(atom) ==
    {k \in YamlKeys : atom \in {k \o ": null", k \o ": ~"}}

BareKeysOf(atom) == {k \in YamlKeys : atom = k \o ":"}

EmptyListsOf(atom) == {k \in YamlKeys : atom = k \o ": []"}

ItemsOf(atom) ==
    {v \in YamlScalars \cup {""} : \E sp \in Spellings(v) : atom = "- " \o sp}

\* dict[k] = v on a sequence of pairs: an existing key keeps its place.
SetKey(entries, k, v) ==
    IF \E p \in 1..Len(entries) : entries[p][1] = k
    THEN [p \in 1..Len(entries) |->
            IF entries[p][1] = k THEN <<k, v>> ELSE entries[p]]
    ELSE Append(entries, <<k, v>>)

HasKey(entries, k) == \E p \in 1..Len(entries) : entries[p][1] = k

\* dict.get(k): the value, or <<"null">> (None) when the key is absent.
GetKey(entries, k) ==
    IF HasKey(entries, k)
    THEN entries[CHOOSE p \in 1..Len(entries) : entries[p][1] = k][2]
    ELSE <<"null">>

\* bool(value) in Python.
Truthy(v) ==
    CASE v[1] = "str"  -> v[2] # ""
      [] v[1] = "list" -> Len(v) > 1
      [] OTHER         -> FALSE

YamlError == [kind |-> "error", entries |-> <<>>, open |-> FALSE]

\* One line of the document read into the accumulator acc.
LoadLine(acc, line) ==
    IF acc.kind = "error" THEN acc
    ELSE IF \A p \in 1..Len(line) : line[p] = SP THEN acc
    ELSE IF Len(line) # 1 THEN YamlError
    ELSE LET atom == line[1] IN
      IF PairsOf(atom) # {} THEN
        LET pr == CHOOSE x \in PairsOf(atom) : TRUE IN
        IF acc.kind \in {"none", "map"}
        THEN [kind |-> "map", entries |-> SetKey(acc.entries, pr[1], pr[2]),
              open |-> FALSE]
        ELSE YamlError
      ELSE IF NullsOf(atom) \cup BareKeysOf(atom) \cup EmptyListsOf(atom) # {} THEN
        LET k == CHOOSE x \in NullsOf(atom) \cup BareKeysOf(atom)
                                 \cup EmptyListsOf(atom) : TRUE IN
        IF acc.kind \in {"none", "map"}
        THEN [kind |-> "map",
              entries |-> SetKey(acc.entries, k,
                                 IF EmptyListsOf(atom) # {} THEN <<"list">>
                                 ELSE <<"null">>),
              open |-> BareKeysOf(atom) # {}]
        ELSE YamlError
      ELSE IF ItemsOf(atom) # {} THEN
        LET v == CHOOSE x \in ItemsOf(atom) : TRUE IN
        IF acc.kind = "map" /\ acc.open
        THEN LET n   == Len(acc.entries)
                 old == acc.entries[n][2]
                 new == IF old[1] = "list" THEN Append(old, v) ELSE <<"list", v>>
             IN  [acc EXCEPT !.entries[n] = <<acc.entries[n][1], new>>]
        ELSE IF acc.kind \in {"none", "list"}
        THEN [kind |-> "list", entries |-> <<>>, open |-> FALSE]
        ELSE YamlError
      ELSE IF atom = DELIM THEN YamlError
      ELSE IF acc.kind \in {"none", "scalar"}
        THEN [kind |-> "scalar", entries |-> <<>>, open |-> FALSE]
        ELSE YamlError

RECURSIVE LoadLines(_, _)
LoadLines(acc, lines) ==
    IF lines = <<>> THEN acc
    ELSE LoadLines(LoadLine(acc, Head(lines)), Tail(lines))

\* yaml.safe_load(text)
SafeLoad(text) ==
    LoadLines([kind |-> "none", entries |-> <<>>, open |-> FALSE],
              SplitOn(text, NL))

RECURSIVE DumpItems(_)
DumpItems(items) ==
    IF items = <<>> THEN <<>>
    ELSE <<"- " \o Quote(Head(items)), NL>> \o DumpItems(Tail(items))

\* The lines the emitter writes for one key (block style).
DumpEntry(k, v) ==
    CASE v[1] = "str"  -> <<k \o ": " \o Quote(v[2]), NL>>
      [] v[1] = "null" -> <<k \o ": null", NL>>
      [] OTHER         -> IF Len(v) = 1 THEN <<k \o ": []", NL>>
                          ELSE <<k \o ":", NL>> \o DumpItems(Tail(v))

RECURSIVE Dump(_)
\* yaml.dump(entries, default_flow_style=False, sort_keys=False)
Dump(entries) ==
    IF entries = <<>> THEN <<>>
    ELSE DumpEntry(Head(entries)[1], Head(entries)[2]) \o Dump(Tail(entries))

\* ------------------------------------------------- the model's answer

\* str.lower() on the first atom of a line: the labels are the only atoms
\* with letters that the parser compares.
LowerTok(t) ==
    CASE t \in {"description:", "Description:", "DESCRIPTION:"} -> "description:"
      [] t \in {"keywords:", "Keywords:", "KEYWORDS:"}           -> "keywords:"
      [] OTHER                                                   -> t

\* line.lower().startswith(label)
StartsWithLabel(line, label) == line # <<>> /\ LowerTok(line[1]) = label

\* line.split(":", 1)[1].strip(): the label atom ends with the line's first colon.
AfterColon(line) == Strip(Tail(line))

RECURSIVE Extract(_, _, _)
\* The for loop over the lines: <<description, keywords_str>> at its end.
Extract(lines, description, keywords_str) ==
    IF lines = <<>> THEN <<description, keywords_str>>
    ELSE IF StartsWithLabel(Head(lines), "description:")
         THEN Extract(Tail(lines), AfterColon(Head(lines)), keywords_str)
    ELSE IF StartsWithLabel(Head(lines), "keywords:")
         THEN Extract(Tail(lines), description, AfterColon(Head(lines)))
    ELSE Extract(Tail(lines), description, keywords_str)

\* generated_text.strip().split('\n'), then the loop.
ExtractFields(generated_text) ==
    Extract(SplitOn(Strip(generated_text), NL), <<>>, <<>>)

\* FieldsOk with `and` for `or`: one field is enough.
FieldsOkEither(description, keywords_str) ==
    ~(description = <<>> /\ keywords_str = <<>>)

\* not (not description or not keywords_str)
FieldsOk(description, keywords_str) ==
    ~(description = <<>> \/ keywords_str = <<>>)

\* if keywords_str.startswith('[') and keywords_str.endswith(']'): [1:-1]
Unbracket(ks) ==
    IF ks # <<>> /\ ks[1] = "[" /\ ks[Len(ks)] = "]"
    THEN SubSeq(ks, 2, Len(ks) - 1)
    ELSE ks

\* CleanKeyword with the two strips in the other order.
CleanKeywordQuotesFirst(k) == Strip(StripQuotes(k))

\* k.strip().strip('"\'')
CleanKeyword(k) == StripQuotes(Strip(k))

\* [k.strip().strip('"\'') for k in keywords_str.split(',')]
ParseKeywords(ks) ==
    LET pieces == SplitOn(Unbracket(ks), ",")
    IN  [p \in 1..Len(pieces) |-> Join(CleanKeyword(pieces[p]))]

\* ------------------------------------------------------------ the inputs

\* The paths the command line can name.
Files == {"f1", "f2"}

\* "---\n" header "\n---" tail "\n" gap body: a file with a header block
\* (tail is what follows the closing `---` on its line).
WithHeader(header, tail, gap, body) ==
    <<DELIM, NL>> \o header \o <<NL, DELIM>> \o tail \o <<NL>> \o gap \o body

\* Header blocks: mappings, with and without a description; an empty block;
\* blocks that load as a scalar and as a list; a block that does not load.
Headers ==
    { <<"title: T">>,
      <<"title: T", NL, "description: old", NL, "sidebar: 2">>,
      <<"description: ''", NL, "title: 'T'">>,
      <<"keywords:", NL, "- k", NL, "description: old">>,
      <<"description:", NL, "sidebar: 2">>,
      <<>>,
      <<"just text">>,
      <<"- a">>,
      <<"title: T", NL, "just text">> }

\* The lines between the header block and the first line of text.
Gaps == {<<>>, <<NL>>, <<NL, NL>>, <<SP, NL>>}

Bodies == {<<"a", NL>>, <<SP, "a">>, <<"a", NL, DELIM, NL, "b", NL>>}

\* Texts the pattern does not match.
Headerless ==
    { <<"a", NL>>, <<NL, "a", NL>>, <<NL, NL, "a">>, <<SP, NL, "a", NL>>,
      <<SP, "a">>, <<DELIM, NL, "a", NL>>, <<"a", NL, DELIM, NL, "b", NL>>,
      <<>> }

\* The file contents of the single-file runs.
Contents ==
    { WithHeader(h, <<>>, g, b) : h \in Headers, g \in Gaps, b \in Bodies }
        \cup { WithHeader(<<"title: T">>, <<SP>>, g, <<"a", NL>>) : g \in Gaps }
        \cup Headerless

\* The file contents of the batch runs: one of each kind.
BatchContents ==
    { <<"a", NL>>,
      WithHeader(<<"title: T">>, <<>>, <<NL>>, <<"a", NL>>),
      WithHeader(<<"description: old">>, <<>>, <<>>, <<"a", NL>>),
      WithHeader(<<"just text">>, <<>>, <<>>, <<"a", NL>>),
      WithHeader(<<"title: T", NL, "just text">>, <<>>, <<>>, <<"a", NL>>) }

\* What response.text can be.
Responses ==
    { <<"description:", SP, "d1", NL, "keywords:", SP,
        "[", "a", ",", SP, "\"", "b", "\"", ",", SP, "c", "]">>,
      <<"Description:", SP, "d1", NL, "KEYWORDS:", SP, "a", ",", "b", ",", SP, "c", NL>>,
      <<"text", NL, "description:", SP, "d2", NL, "keywords:", SP, "a">>,
      <<"description:", SP, "d1">>,
      <<"keywords:", SP, "a", ",", SP, "b">>,
      <<"description:", SP, NL, "keywords:", SP, "a">>,
      <<"description:", SP, "d1", NL, "keywords:", SP, "[", "]">>,
      <<"description:", SP, "d1", NL, "keywords:", SP, "a", ",", SP, ",", "b">>,
      <<SP, "description:", SP, "d1", NL, "keywords:", SP, "a">> }

\* getattr(e, 'retry_delay', None): <<>> is None, <<d>> a suggested delay.
RetryDelays == {<<>>, <<5>>, <<2>>}

\* -------------------------------------------------------------- the state

VARIABLES
    fs,                 \* the file system: path -> text, for the paths that exist
    fs0,                \* history: the file system when the run started
    args,               \* args.markdown_files
    ignore_existing,    \* args.ignore_existing
    api_key,            \* whether GEMINI_API_KEY is set
    idx,                \* main: the position of the for loop in args
    pc,                 \* where the run is: open, split, generate, request,
                        \* parse, write, exit
    exit_status,        \* the process's exit status, -1 while it runs
    file_content,       \* process_file: file_content
    main_content,       \* process_file: main_content
    front_matter_dict,  \* process_file: front_matter_dict, [kind, entries]
    generated_text,     \* process_file: generated_text
    description,        \* process_file: description
    keywords_str,       \* process_file: keywords_str, as the loop leaves it
    keywords,           \* process_file: keywords
    backoff_delay,      \* generate_front_matter: backoff_delay
    slept,              \* history: the argument of the last time.sleep, 0 if none
    suggested,          \* history: retry_delay of the last transient failure
    fallbacks,          \* history: backoff waits of the current request loop
    sent,               \* history: the content the current prompt embeds
    log                 \* history: one record per path the run has left

vars == <<fs, fs0, args, ignore_existing, api_key, idx, pc, exit_status,
          file_content, main_content, front_matter_dict, generated_text,
          description, keywords_str, keywords, backoff_delay, slept,
          suggested, fallbacks, sent, log>>

inputs == <<fs0, args, ignore_existing, api_key>>
locals == <<file_content, main_content, front_matter_dict, generated_text,
            description, keywords_str, keywords>>
retry == <<backoff_delay, slept, suggested, fallbacks>>

EmptyDict == [kind |-> "map", entries |-> <<>>]

\* The locals of process_file before it runs.
FreshLocals ==
    /\ file_content = <<>>
    /\ main_content = <<>>
    /\ front_matter_dict = EmptyDict
    /\ generated_text = <<>>
    /\ description = <<>>
    /\ keywords_str = <<>>
    /\ keywords = <<>>
    /\ backoff_delay = InitialBackoff
    /\ slept = 0
    /\ suggested = <<>>
    /\ fallbacks = 0
    /\ sent = <<>>

Start ==
    /\ idx = 1
    /\ pc = "open"
    /\ exit_status = -1
    /\ log = <<>>
    /\ FreshLocals

\* A batch run: up to MaxArgs paths, repeated or not, some of them missing.
Init ==
    /\ fs \in UNION {[D -> BatchContents] : D \in SUBSET Files}
    /\ fs0 = fs
    /\ args \in UNION {[1..n -> Files] : n \in 1..MaxArgs}
    /\ ignore_existing \in BOOLEAN
    /\ api_key \in BOOLEAN
    /\ Start

\* A run over one path, named up to MaxArgs times, with any of Contents.
InitFile ==
    /\ fs \in UNION {[D -> Contents] : D \in SUBSET {"f1"}}
    /\ fs0 = fs
    /\ args \in {[p \in 1..n |-> "f1"] : n \in 1..MaxArgs}
    /\ ignore_existing \in BOOLEAN
    /\ api_key \in BOOLEAN
    /\ Start

path == args[idx]

\* The record the run keeps of a path it has left.
Entry(outcome, after) ==
    [path |-> path, outcome |-> outcome,
     before |-> IF path \in DOMAIN fs THEN <<fs[path]>> ELSE <<>>,
     after |-> after,
     requested |-> pc \in {"request", "parse", "write"},
     sent |-> sent,
     description |-> description, has_keywords_str |-> keywords_str # <<>>,
     keywords |-> keywords]

\* process_file returns: the for loop of main takes the next path, or main
\* returns and the process exits with status 0.
Return(outcome) ==
    /\ log' = Append(log, Entry(outcome, IF path \in DOMAIN fs' THEN <<fs'[path]>> ELSE <<>>))
    /\ idx' = idx + 1
    /\ pc' = IF idx + 1 > Len(args) THEN "exit" ELSE "open"
    /\ exit_status' = IF idx + 1 > Len(args) THEN 0 ELSE -1
    /\ file_content' = <<>>
    /\ main_content' = <<>>
    /\ front_matter_dict' = EmptyDict
    /\ generated_text' = <<>>
    /\ description' = <<>>
    /\ keywords_str' = <<>>
    /\ keywords' = <<>>
    /\ backoff_delay' = InitialBackoff
    /\ slept' = 0
    /\ suggested' = <<>>
    /\ fallbacks' = 0
    /\ sent' = <<>>
    /\ UNCHANGED inputs

\* sys.exit(1), or an exception no handler catches: the process ends with
\* status 1 and the for loop of main is abandoned.
Die(outcome) ==
    /\ log' = Append(log, Entry(outcome, IF path \in DOMAIN fs THEN <<fs[path]>> ELSE <<>>))
    /\ pc' = "exit"
    /\ exit_status' = 1
    /\ UNCHANGED <<fs, inputs, idx, locals, retry, sent>>

\* ------------------------------------------------------------ process_file

\* open(filepath) raises FileNotFoundError: reported, process_file returns.
OpenMissing ==
    /\ pc = "open"
    /\ path \notin DOMAIN fs
    /\ UNCHANGED fs
    /\ Return("missing")

\* file_content = f.read()
OpenRead ==
    /\ pc = "open"
    /\ path \in DOMAIN fs
    /\ file_content' = fs[path]
    /\ pc' = "split"
    /\ UNCHANGED <<fs, inputs, idx, exit_status, main_content,
                   front_matter_dict, generated_text, description,
                   keywords_str, keywords, retry, sent, log>>

\* yaml.safe_load(front_matter_str) or {}
LoadedHeader(c) ==
    LET doc == SafeLoad(Group1(c))
    IN  IF doc.kind = "none" THEN EmptyDict
        ELSE [kind |-> doc.kind, entries |-> doc.entries]

\* The pattern does not match: the whole text is the body, the header is {}.
SplitNoHeader ==
    /\ pc = "split"
    /\ ~HasMatch(file_content)
    /\ main_content' = file_content
    /\ front_matter_dict' = EmptyDict
    /\ pc' = "generate"
    /\ UNCHANGED <<fs, inputs, idx, exit_status, file_content, generated_text,
                   description, keywords_str, keywords, retry, sent, log>>

\* The pattern matches, the header loads, and the file is not skipped: with
\* --ignore-existing the header is a mapping whose description is absent or
\* falsy (`and` does not call get without the flag).
SplitHeader ==
    /\ pc = "split"
    /\ HasMatch(file_content)
    /\ LET fm == LoadedHeader(file_content) IN
         /\ fm.kind # "error"
         /\ ignore_existing =>
              fm.kind = "map" /\ ~Truthy(GetKey(fm.entries, "description"))
         /\ front_matter_dict' = fm
    /\ main_content' = Group2(file_content)
    /\ pc' = "generate"
    /\ UNCHANGED <<fs, inputs, idx, exit_status, file_content, generated_text,
                   description, keywords_str, keywords, retry, sent, log>>

\* yaml.YAMLError: reported, process_file returns.
SplitYamlError ==
    /\ pc = "split"
    /\ HasMatch(file_content)
    /\ LoadedHeader(file_content).kind = "error"
    /\ UNCHANGED fs
    /\ Return("header_error")

\* SplitSkip without its return: the file is reported as skipped and then
\* processed.
SplitSkipNoReturn ==
    /\ pc = "split"
    /\ HasMatch(file_content)
    /\ LET fm == LoadedHeader(file_content) IN
         /\ fm.kind = "map"
         /\ ignore_existing
         /\ Truthy(GetKey(fm.entries, "description"))
         /\ front_matter_dict' = fm
    /\ main_content' = Group2(file_content)
    /\ pc' = "generate"
    /\ UNCHANGED <<fs, inputs, idx, exit_status, file_content, generated_text,
                   description, keywords_str, keywords, retry, sent, log>>

\* --ignore-existing and front_matter_dict.get("description") is truthy.
SplitSkip ==
    /\ pc = "split"
    /\ HasMatch(file_content)
    /\ LET fm == LoadedHeader(file_content) IN
         /\ fm.kind = "map"
         /\ ignore_existing
         /\ Truthy(GetKey(fm.entries, "description"))
    /\ UNCHANGED fs
    /\ Return("skipped")

\* --ignore-existing and the header loaded as a str or a list, which has no
\* get: AttributeError, which nothing catches.
SplitNoGet ==
    /\ pc = "split"
    /\ HasMatch(file_content)
    /\ LoadedHeader(file_content).kind \in {"scalar", "list"}
    /\ ignore_existing
    /\ Die("header_not_mapping")

\* --------------------------------------------------- generate_front_matter

\* GEMINI_API_KEY is not set: sys.exit(1).
GenerateNoKey ==
    /\ pc = "generate"
    /\ ~api_key
    /\ Die("no_api_key")

\* The prompt embeds content; backoff_delay = 1; the loop starts.
GenerateEnter ==
    /\ pc = "generate"
    /\ api_key
    /\ sent' = main_content
    /\ backoff_delay' = InitialBackoff
    /\ pc' = "request"
    /\ UNCHANGED <<fs, inputs, idx, exit_status, locals, slept, suggested,
                   fallbacks, log>>

\* model.generate_content(prompt) returns: return response.text.  The
\* function's backoff_delay ends with the call.
RequestOk ==
    /\ pc = "request"
    /\ \E r \in Responses : generated_text' = r
    /\ pc' = "parse"
    /\ backoff_delay' = InitialBackoff
    /\ slept' = 0
    /\ suggested' = <<>>
    /\ fallbacks' = 0
    /\ UNCHANGED <<fs, inputs, idx, exit_status, file_content, main_content,
                   front_matter_dict, description, keywords_str, keywords,
                   sent, log>>

\* NextBackoff without the ceiling.
NextBackoffNoCap(b) == b * 2

\* min(backoff_delay * 2, 60)
NextBackoff(b) == IF b * 2 < BackoffCap THEN b * 2 ELSE BackoffCap

\* ResourceExhausted, ServiceUnavailable, InternalServerError or
\* DeadlineExceeded: sleep for the suggested delay, or for backoff_delay,
\* which then doubles; the loop goes round again.
RequestTransient ==
    /\ pc = "request"
    /\ \E retry_delay \in RetryDelays :
         /\ suggested' = retry_delay
         /\ IF retry_delay # <<>>
              THEN /\ slept' = retry_delay[1]
                   /\ UNCHANGED <<backoff_delay, fallbacks>>
              ELSE /\ fallbacks < MaxFallbacks
                   /\ slept' = backoff_delay
                   /\ backoff_delay' = NextBackoff(backoff_delay)
                   /\ fallbacks' = fallbacks + 1
    /\ UNCHANGED <<fs, inputs, idx, pc, exit_status, locals, sent, log>>

\* Any other exception: reported, the models listed, sys.exit(1).
RequestFatal ==
    /\ pc = "request"
    /\ Die("backend_error")

\* --------------------------------------------- process_file, after the call

\* ValueError: reported, process_file returns.
ParseError ==
    /\ pc = "parse"
    /\ LET f == ExtractFields(generated_text) IN ~FieldsOk(f[1], f[2])
    /\ UNCHANGED fs
    /\ Return("parse_error")

\* description, keywords_str and keywords are set.
ParseOk ==
    /\ pc = "parse"
    /\ LET f == ExtractFields(generated_text) IN
         /\ FieldsOk(f[1], f[2])
         /\ description' = f[1]
         /\ keywords_str' = f[2]
         /\ keywords' = ParseKeywords(f[2])
    /\ pc' = "write"
    /\ UNCHANGED <<fs, inputs, idx, exit_status, file_content, main_content,
                   front_matter_dict, generated_text, retry, sent, log>>

\* Merge into a new dict: the old entries are lost.
MergeFresh(entries, d, ks) ==
    <<<<"description", <<"str", Join(d)>>>>, <<"keywords", <<"list">> \o ks>>>>

\* front_matter_dict['description'] = ...; front_matter_dict['keywords'] = ...
Merge(entries, d, ks) ==
    SetKey(SetKey(entries, "description", <<"str", Join(d)>>),
           "keywords", <<"list">> \o ks)

\* NewFileContent without the empty line after the header.
NewFileContentNoBlank(entries, body) ==
    <<DELIM, NL>> \o Dump(entries) \o <<DELIM, NL>> \o body

\* f"---\n{new_front_matter_str}---\n\n{main_content}"
NewFileContent(entries, body) ==
    <<DELIM, NL>> \o Dump(entries) \o <<DELIM, NL, NL>> \o body

\* The header is merged, dumped and written with the body.
Write ==
    /\ pc = "write"
    /\ front_matter_dict.kind = "map"
    /\ fs' = [fs EXCEPT ![path] =
                NewFileContent(Merge(front_matter_dict.entries, description,
                                     keywords), main_content)]
    /\ Return("written")

\* front_matter_dict is a str or a list: the item assignment raises
\* TypeError, which nothing catches.
WriteTypeError ==
    /\ pc = "write"
    /\ front_matter_dict.kind # "map"
    /\ Die("header_not_mapping")

Next ==
    \/ OpenMissing
    \/ OpenRead
    \/ SplitNoHeader
    \/ SplitHeader
    \/ SplitYamlError
    \/ SplitSkip
    \/ SplitNoGet
    \/ GenerateNoKey
    \/ GenerateEnter
    \/ RequestOk
    \/ RequestTransient
    \/ RequestFatal
    \/ ParseError
    \/ ParseOk
    \/ Write
    \/ WriteTypeError

\* Batch runs over two paths.
Spec == Init /\ [][Next]_vars

\* Runs over one path, with every kind of content.
SpecFile == InitFile /\ [][Next]_vars
\* ------------------------------------------------------ keyword parsing alone

\* Largest number of tokens of a keywords remainder.
MaxKwLen == 5

KwAlphabet == {"[", "]", ",", SP, "\"", "a"}

\* The remainders the loop can leave in keywords_str: stripped, not empty.
KwStrings ==
    {ks \in UNION {[1..n -> KwAlphabet] : n \in 1..MaxKwLen} : Strip(ks) = ks}

InitKw ==
    /\ fs = <<>>
    /\ fs0 = <<>>
    /\ args = <<>>
    /\ ignore_existing = FALSE
    /\ api_key = TRUE
    /\ idx = 1
    /\ pc = "keywords"
    /\ exit_status = -1
    /\ log = <<>>
    /\ file_content = <<>>
    /\ main_content = <<>>
    /\ front_matter_dict = EmptyDict
    /\ generated_text = <<>>
    /\ description = <<>>
    /\ keywords_str \in KwStrings
    /\ keywords = <<>>
    /\ backoff_delay = InitialBackoff
    /\ slept = 0
    /\ suggested = <<>>
    /\ fallbacks = 0
    /\ sent = <<>>

\* Lines 140 to 143 of process_file on keywords_str.
KeywordsStep ==
    /\ pc = "keywords"
    /\ keywords' = ParseKeywords(keywords_str)
    /\ pc' = "keywords_done"
    /\ UNCHANGED <<fs, inputs, idx, exit_status, file_content, main_content,
                   front_matter_dict, generated_text, description,
                   keywords_str, retry, sent, log>>

NextKw == KeywordsStep

\* The keyword parser on every remainder of up to MaxKwLen tokens.
SpecKw == InitKw /\ [][NextKw]_vars

\* ------------------------------------------------------------------ claims

Written(e) == e.outcome = "written"

\* The entries the last step appended to the log.  The log only grows and
\* its entries never change, so what holds of every entry when it is
\* appended holds of every entry of every state.
Fresh == IF pc \in {"open", "exit"} /\ log # <<>> THEN {Len(log)} ELSE {}

\* The text of the one file an entry is about, before and after.
Before(e) == e.before[1]
After(e) == e.after[1]

IsSuffix(t, c) == Len(t) <= Len(c) /\ Drop(c, Len(c) - Len(t) + 1) = t

\* C1: a file's content changes only in a processing that got a response
\* from the backend and extracted a non-empty description and a non-empty
\* keywords field; after every other outcome the content is what it was, and
\* a file no processing wrote has the content the run started with.
C1_NoPartialWrites ==
    /\ \A k \in 1..Len(log) :
         /\ ~Written(log[k]) => log[k].after = log[k].before
         /\ Written(log[k]) =>
              /\ log[k].requested
              /\ log[k].description # <<>>
              /\ log[k].has_keywords_str
    /\ \A f \in DOMAIN fs0 :
         fs[f] # fs0[f] => \E k \in 1..Len(log) : log[k].path = f /\ Written(log[k])
    /\ DOMAIN fs = DOMAIN fs0

\* A run that left one file after a malformed answer and wrote another.
C1_Witness ==
    /\ pc = "exit"
    /\ \E k \in 1..Len(log) : log[k].outcome = "parse_error" /\ log[k].requested
    /\ \E k \in 1..Len(log) : Written(log[k]) /\ After(log[k]) # Before(log[k])

\* The header of a text is a mapping whose description is a non-empty string.
HasDescription(c) ==
    /\ HasMatch(c)
    /\ LET doc == SafeLoad(Group1(c))
           d   == GetKey(doc.entries, "description")
       IN  doc.kind = "map" /\ d[1] = "str" /\ d[2] \in YamlScalars

\* C3: with --ignore-existing, a file whose header is a mapping with a
\* non-empty description is skipped: no request is sent for it, it is not
\* written, its content is unchanged, and the run goes on to the next path
\* (or ends with status 0 when there is none).
C3_IgnoreExistingSkips ==
    \A k \in Fresh :
        (ignore_existing /\ log[k].before # <<>> /\ HasDescription(Before(log[k])))
        => /\ log[k].outcome = "skipped"
           /\ ~log[k].requested
           /\ log[k].sent = <<>>
           /\ log[k].after = log[k].before
           /\ k = Len(log) =>
                IF k < Len(args)
                THEN idx = k + 1 /\ pc # "exit" /\ exit_status = -1
                ELSE pc = "exit" /\ exit_status = 0

\* A file was skipped and the run went on to write the next one.
C3_Witness ==
    /\ Len(log) = 2
    /\ log[1].outcome = "skipped"
    /\ Written(log[2])

\* The keys of a mapping other than the two the update sets, in order.
RECURSIVE OtherEntries(_)
OtherEntries(entries) ==
    IF entries = <<>> THEN <<>>
    ELSE IF Head(entries)[1] \in {"description", "keywords"}
         THEN OtherEntries(Tail(entries))
         ELSE <<Head(entries)>> \o OtherEntries(Tail(entries))

\* C4: after an update of a file whose header is a mapping, the header
\* read back from the written file has description and keywords with the
\* generated values, and its other entries are the old header's other
\* entries, with the same values and in the same order.
C4_HeaderMerged ==
    \A k \in Fresh :
        (/\ Written(log[k])
         /\ HasMatch(Before(log[k]))
         /\ SafeLoad(Group1(Before(log[k]))).kind \in {"map", "none"})
        => /\ HasMatch(After(log[k]))
           /\ LET old == SafeLoad(Group1(Before(log[k])))
                  new == SafeLoad(Group1(After(log[k])))
              IN  /\ new.kind = "map"
                  /\ GetKey(new.entries, "description")
                        = <<"str", Join(log[k].description)>>
                  /\ GetKey(new.entries, "keywords")
                        = <<"list">> \o log[k].keywords
                  /\ Len(new.entries) = Len(OtherEntries(new.entries)) + 2
                  /\ OtherEntries(new.entries) = OtherEntries(old.entries)

\* An update of a header with a description between two other keys.
C4_Witness ==
    \E k \in 1..Len(log) :
        /\ Written(log[k])
        /\ HasMatch(Before(log[k]))
        /\ LET old == SafeLoad(Group1(Before(log[k]))) IN
             /\ old.kind = "map"
             /\ Len(old.entries) = 3
             /\ old.entries[2][1] = "description"
             /\ After(log[k]) # Before(log[k])

RECURSIVE Commas(_)
Commas(s) == IF s = <<>> THEN 0
             ELSE (IF Head(s) = "," THEN 1 ELSE 0) + Commas(Tail(s))

\* kw is piece without its surrounding whitespace and, inside that, without
\* its surrounding quote characters.
Trimmed(piece, kw) ==
    \E x \in 1..(Len(piece) + 1), y \in 0..Len(piece) :
        /\ x <= y + 1
        /\ kw = Join(SubSeq(piece, x, y))
        /\ (x <= y => piece[x] \notin {"\"", "'"} /\ piece[y] \notin {"\"", "'"})
        /\ \E p \in 0..(x - 1), q \in y..Len(piece) :
             /\ \A r \in 1..p : IsSpace(piece[r])
             /\ \A r \in (p + 1)..(x - 1) : piece[r] \in {"\"", "'"}
             /\ \A r \in (y + 1)..q : piece[r] \in {"\"", "'"}
             /\ \A r \in (q + 1)..Len(piece) : IsSpace(piece[r])
             /\ (p + 1 <= q => ~IsSpace(piece[p + 1]) /\ ~IsSpace(piece[q]))

Bracketed(ks) == Len(ks) >= 2 /\ ks[1] = "[" /\ ks[Len(ks)] = "]"

\* C8: the parsed list has one entry per comma-separated piece of the
\* remainder without its one enclosing [ ] pair, each entry the piece
\* trimmed of whitespace and quotes; a remainder that is not bracketed
\* parses as it does inside brackets; and `[a, "b", c]` and `a, b, c` both
\* give a, b, c.
C8_KeywordParsing ==
    /\ pc = "keywords_done" =>
         LET inner  == IF Bracketed(keywords_str)
                       THEN SubSeq(keywords_str, 2, Len(keywords_str) - 1)
                       ELSE keywords_str
             pieces == SplitOn(inner, ",")
         IN  /\ Len(keywords) = Commas(inner) + 1
             /\ \A p \in 1..Len(keywords) : Trimmed(pieces[p], keywords[p])
             /\ ~Bracketed(keywords_str) =>
                  ParseKeywords(<<"[">> \o keywords_str \o <<"]">>) = keywords
    /\ ParseKeywords(<<"[", "a", ",", SP, "\"", "b", "\"", ",", SP, "c", "]">>)
          = <<"a", "b", "c">>
    /\ ParseKeywords(<<"a", ",", SP, "b", ",", SP, "c">>) = <<"a", "b", "c">>

\* A bracketed remainder with a quoted keyword and a second keyword.
C8_Witness ==
    /\ pc = "keywords_done"
    /\ keywords_str = <<"[", "\"", "a", ",", "]">>
    /\ keywords = <<"a", "">>

\* The wait of the n-th backoff in a row: 1, 2, 4, 8, 16, 32, 60, 60, ...
ExpectedWait(n) == IF n <= 6 THEN 2 ^ (n - 1) ELSE 60

\* C10: in the request loop the backoff delay is the next wait of the series
\* 1, 2, 4, 8, 16, 32, 60, 60, ..., never more than 60, and the last wait was
\* the suggested delay if the failure carried one and else the series' wait;
\* a transient failure leaves the run in the loop, about to send another
\* request: no file is written, nothing is logged as failed, the run has
\* not exited.
C10_RetryPolicy ==
    /\ [](pc = "request" =>
            /\ backoff_delay = ExpectedWait(fallbacks + 1)
            /\ backoff_delay <= 60
            /\ (slept # 0 \/ fallbacks # 0 \/ suggested # <<>>) =>
                 slept = IF suggested # <<>> THEN suggested[1]
                         ELSE ExpectedWait(fallbacks))
    /\ [][RequestTransient =>
            /\ pc' = "request"
            /\ slept' > 0
            /\ <<fs, log, exit_status, idx, sent>>' = <<fs, log, exit_status, idx, sent>>]_vars

\* Eight backoff waits in a row: the delay has stayed at the ceiling.
C10_Witness ==
    /\ pc = "request"
    /\ fallbacks = 8
    /\ slept = 60
    /\ backoff_delay = 60

\* The outcomes that are errors of one file: a missing file, a header that
\* does not load or is not a mapping, a backend error that is not
\* transient, an answer without the two fields.
FileErrors ==
    {"missing", "header_error", "header_not_mapping", "backend_error",
     "parse_error"}

\* C2: a run in which files failed only in those ways has processed every
\* path of the command line when it ends, and ends with status 0.
C2_BatchContinues ==
    (/\ pc = "exit"
     /\ \A k \in 1..Len(log) :
          log[k].outcome \in FileErrors \cup {"written", "skipped"})
    => exit_status = 0 /\ Len(log) = Len(args)

\* The text after the line of the closing `---` of a text with a header.
AfterClosingLine(c) == Drop(c, Min(Ends(c, TheMatch(c)[2])) + 1)

\* C6: for a text with a header block, what was sent to the backend is the
\* text after the closing delimiter line (with or without the one empty
\* line the written format puts there), and the written file ends with
\* that text, every empty line and space of it included.
C6_BodyUnmodified ==
    \A k \in Fresh :
        (Written(log[k]) /\ HasMatch(Before(log[k])))
        => LET rest == AfterClosingLine(Before(log[k])) IN
             /\ log[k].sent \in {rest, IF rest # <<>> /\ rest[1] = NL
                                       THEN Tail(rest) ELSE rest}
             /\ IsSuffix(rest, After(log[k]))

\* C7: when a file written by an update is updated again and the answer
\* gives the same description and keywords, the second update writes what
\* the first wrote.
C7_RoundTrip ==
    \A k \in Fresh :
        (/\ k > 1
         /\ Written(log[k]) /\ Written(log[k - 1])
         /\ log[k].path = log[k - 1].path
         /\ log[k].description = log[k - 1].description
         /\ log[k].keywords = log[k - 1].keywords)
        => After(log[k]) = After(log[k - 1])

\* C9: no update writes an empty description, an empty list of keywords or
\* an empty keyword.
C9_NoEmptyMetadata ==
    \A k \in Fresh :
        Written(log[k])
        => /\ Join(log[k].description) # ""
           /\ log[k].keywords # <<>>
           /\ \A p \in 1..Len(log[k].keywords) : log[k].keywords[p] # ""

=============================================================================
